---------------------------- MODULE Spec2Model ----------------------------
(***************************************************************************)
(* F5-TTS HTTP API: the FastAPI server (src/src/f5_tts/api_server.py), the  *)
(* client library (src/src/f5_tts/api_client.py) and the example program   *)
(* (src/examples/api_usage_example.py).                                    *)
(*                                                                         *)
(* Conventions.  A Python str that the code inspects character by          *)
(* character (content type, file name) is a sequence of one-character      *)
(* strings.  A Python value is a tagged record (PyNone, PyBool, PyInt,     *)
(* PyFloat, PyStr, dict as PyDict, list as PyList).  A float is kept in    *)
(* hundredths (PyFloat(15) is 0.15), so that the bounds 0.1, 1.0, 3.0 and  *)
(* 10.0 and the defaults 0.1 and 0.15 are exact.  JSON text is a sequence  *)
(* of tokens.  A raised Python exception is a record [exc |-> class, ...]. *)
(***************************************************************************)
EXTENDS Integers, Sequences, FiniteSets, TLC

VARIABLES
    phase,        \* server process: "created", "running", "stopped"
    tts_model,    \* the global of api_server.py: "None" or "F5TTS"
    temp_dirs,    \* the temporary directories that exist (mkdtemp ids)
    temp_files,   \* function: directory id -> bytes of the audio file in it
    frames,       \* the handler frames suspended at their await
    last,         \* the most recent handler segment: input, effects, response
    startup_log,  \* what startup_event printed: "none", "loaded" or "failed"
    client,       \* F5TTSClient.synthesize_speech call in progress
    out_file,     \* the client's working directory: file name -> file
    main          \* the example program's position and observations

vars == <<phase, tts_model, temp_dirs, temp_files, frames, last,
          startup_log, client, out_file, main>>

serverVars == <<phase, tts_model, temp_dirs, temp_files, frames, last, startup_log>>

-----------------------------------------------------------------------------
(* Bounds of the model *)

\* Temporary directories that may exist at once.  Every suspended handler
\* frame holds one, so this also bounds the requests in flight.
MaxTmp == 2

\* Requests in flight at once where the full set of request inputs is drawn.
MaxWideInFlight == 1

-----------------------------------------------------------------------------
(* Python str operations used by the upload check *)

None == "None"

LowerOf ==
    [c \in {"A", "F", "G", "M", "O", "P", "T", "V", "W", "X"} |->
        CASE c = "A" -> "a" [] c = "F" -> "f" [] c = "G" -> "g"
          [] c = "M" -> "m" [] c = "O" -> "o" [] c = "P" -> "p"
          [] c = "T" -> "t" [] c = "V" -> "v" [] c = "W" -> "w"
          [] c = "X" -> "x"]

\* str.lower()
lower(s) == [i \in 1..Len(s) |-> IF s[i] \in DOMAIN LowerOf THEN LowerOf[s[i]] ELSE s[i]]

\* str.startswith(prefix)
startswith(s, p) == Len(s) >= Len(p) /\ SubSeq(s, 1, Len(p)) = p

\* str.endswith(suffix)
endswith(s, suf) == Len(s) >= Len(suf) /\ SubSeq(s, Len(s) - Len(suf) + 1, Len(s)) = suf

\* str.endswith(tuple of suffixes)
endswith_any(s, sufs) == \E suf \in sufs : endswith(s, suf)

\* ('.wav', '.mp3', '.flac', '.m4a', '.ogg')
AudioSuffixes ==
    { <<".", "w", "a", "v">>, <<".", "m", "p", "3">>, <<".", "f", "l", "a", "c">>,
      <<".", "m", "4", "a">>, <<".", "o", "g", "g">> }

AudioPrefix == <<"a", "u", "d", "i", "o", "/">>

OctetStream ==
    <<"a", "p", "p", "l", "i", "c", "a", "t", "i", "o", "n", "/",
      "o", "c", "t", "e", "t", "-", "s", "t", "r", "e", "a", "m">>

\* `not x` for a str or None: both None and "" are the empty sequence here.
falsy(s) == s = <<>>

\* api_server.py 184-188 / 289-293
is_audio_content_type(content_type) ==
    \/ falsy(content_type)
    \/ startswith(content_type, AudioPrefix)
    \/ content_type = OctetStream

\* Faulty variant, for comparison: the file name is compared without lower().
is_audio_filename_case_sensitive(filename) ==
    \/ falsy(filename)
    \/ endswith_any(filename, AudioSuffixes)

\* api_server.py 189-192 / 294-297
is_audio_filename(filename) ==
    \/ falsy(filename)
    \/ endswith_any(lower(filename), AudioSuffixes)

\* api_server.py 194 / 299: the condition of the 400
upload_rejected(upload) ==
    ~(is_audio_content_type(upload.content_type) \/ is_audio_filename(upload.filename))

-----------------------------------------------------------------------------
(* Python values *)

PyNone == [t |-> "None"]
PyBool(b) == [t |-> "bool", b |-> b]
PyInt(i) == [t |-> "int", i |-> i]
PyFloat(c) == [t |-> "float", c |-> c]
PyStr(s) == [t |-> "str", s |-> s]
PyList == [t |-> "list"]
PyDict(d) == [t |-> "dict", d |-> d]

IsNumber(v) == v.t \in {"int", "float"}

\* The numeric value of an int or float, in hundredths.
NumC(v) == IF v.t = "int" THEN v.i * 100 ELSE v.c

\* Python ==, on the values above (1 == 1.0 is true).
PyEq(a, b) == IF IsNumber(a) /\ IsNumber(b) THEN NumC(a) = NumC(b) ELSE a = b

-----------------------------------------------------------------------------
(* JSON text as tokens; json.dumps and json.loads.  The token language has  *)
(* scalars, the empty array and objects whose members are scalars.         *)

JP(p) == [j |-> "punct", p |-> p]
JString(s) == [j |-> "string", s |-> s]
JInt(i) == [j |-> "int", i |-> i]
JReal(c) == [j |-> "real", c |-> c]
JLit(l) == [j |-> "lit", l |-> l]
\* A bare word that is no JSON literal, such as None or a stray identifier.
JWord(w) == [j |-> "word", w |-> w]

IsScalarTok(tok) ==
    \/ tok.j \in {"string", "int", "real"}
    \/ tok.j = "lit" /\ tok.l \in {"null", "true", "false"}

\* json.loads of one scalar
json_scalar(tok) ==
    CASE tok.j = "string" -> PyStr(tok.s)
      [] tok.j = "int" -> PyInt(tok.i)
      [] tok.j = "real" -> PyFloat(tok.c)
      [] OTHER -> IF tok.l = "null" THEN PyNone ELSE PyBool(tok.l = "true")

JSONDecodeError == [exc |-> "JSONDecodeError", text |-> {"json"}]

EmptyDict == [k \in {} |-> PyNone]

\* The members of an object from token i on: key : scalar (, key : scalar)* }
\* and nothing after the closing brace.  A repeated key keeps its last value.
RECURSIVE json_members(_, _, _)
json_members(toks, i, acc) ==
    IF i + 3 > Len(toks) THEN JSONDecodeError
    ELSE IF ~(toks[i].j = "string" /\ toks[i + 1] = JP(":") /\ IsScalarTok(toks[i + 2]))
    THEN JSONDecodeError
    ELSE LET d == [k \in DOMAIN acc \cup {toks[i].s} |->
                      IF k = toks[i].s THEN json_scalar(toks[i + 2]) ELSE acc[k]]
         IN  IF toks[i + 3] = JP("}")
             THEN IF i + 3 = Len(toks) THEN PyDict(d) ELSE JSONDecodeError
             ELSE IF toks[i + 3] = JP(",") THEN json_members(toks, i + 4, d)
             ELSE JSONDecodeError

\* json.loads: the Python value, or the JSONDecodeError it raises.
json_loads(toks) ==
    IF Len(toks) = 0 THEN JSONDecodeError
    ELSE IF Len(toks) = 1
    THEN IF IsScalarTok(toks[1]) THEN json_scalar(toks[1]) ELSE JSONDecodeError
    ELSE IF toks = <<JP("["), JP("]")>> THEN PyList
    ELSE IF toks = <<JP("{"), JP("}")>> THEN PyDict(EmptyDict)
    ELSE IF toks[1] = JP("{") THEN json_members(toks, 2, EmptyDict)
    ELSE JSONDecodeError

\* json.dumps of one scalar
json_dumps_scalar(v) ==
    CASE v.t = "None" -> JLit("null")
      [] v.t = "bool" -> JLit(IF v.b THEN "true" ELSE "false")
      [] v.t = "int" -> JInt(v.i)
      [] v.t = "float" -> JReal(v.c)
      [] OTHER -> JString(v.s)

RECURSIVE json_dumps_items(_, _)
json_dumps_items(items, i) ==
    IF i > Len(items) THEN <<>>
    ELSE (IF i > 1 THEN <<JP(",")>> ELSE <<>>)
         \o <<JString(items[i][1]), JP(":"), json_dumps_scalar(items[i][2])>>
         \o json_dumps_items(items, i + 1)

\* json.dumps of a dict literal, given as its items in order.
json_dumps(items) == <<JP("{")>> \o json_dumps_items(items, 1) \o <<JP("}")>>

-----------------------------------------------------------------------------
(* TTSRequest: the pydantic model and its validation *)

IsExc(r) == "exc" \in DOMAIN r

\* The declared fields, in order (api_server.py 28-37).  ge and le are in
\* hundredths and apply when has_ge / has_le.
TTSRequestFields ==
    << [name |-> "ref_text", type |-> "str", required |-> TRUE, default |-> PyNone,
        has_ge |-> FALSE, ge |-> 0, has_le |-> FALSE, le |-> 0],
       [name |-> "gen_text", type |-> "str", required |-> TRUE, default |-> PyNone,
        has_ge |-> FALSE, ge |-> 0, has_le |-> FALSE, le |-> 0],
       [name |-> "target_rms", type |-> "float", required |-> FALSE, default |-> PyFloat(10),
        has_ge |-> TRUE, ge |-> 0, has_le |-> TRUE, le |-> 100],
       [name |-> "cross_fade_duration", type |-> "float", required |-> FALSE,
        default |-> PyFloat(15),
        has_ge |-> TRUE, ge |-> 0, has_le |-> FALSE, le |-> 0],
       [name |-> "speed", type |-> "float", required |-> FALSE, default |-> PyFloat(100),
        has_ge |-> TRUE, ge |-> 10, has_le |-> TRUE, le |-> 300],
       [name |-> "nfe_step", type |-> "int", required |-> FALSE, default |-> PyInt(32),
        has_ge |-> TRUE, ge |-> 100, has_le |-> TRUE, le |-> 12800],
       [name |-> "cfg_strength", type |-> "float", required |-> FALSE, default |-> PyFloat(200),
        has_ge |-> TRUE, ge |-> 0, has_le |-> TRUE, le |-> 1000],
       [name |-> "sway_sampling_coef", type |-> "float", required |-> FALSE,
        default |-> PyInt(-1),
        has_ge |-> FALSE, ge |-> 0, has_le |-> FALSE, le |-> 0],
       [name |-> "remove_silence", type |-> "bool", required |-> FALSE,
        default |-> PyBool(FALSE),
        has_ge |-> FALSE, ge |-> 0, has_le |-> FALSE, le |-> 0],
       [name |-> "seed", type |-> "optional_int", required |-> FALSE, default |-> PyNone,
        has_ge |-> FALSE, ge |-> 0, has_le |-> FALSE, le |-> 0] >>

FieldNames == {TTSRequestFields[i].name : i \in DOMAIN TTSRequestFields}

Invalid == [invalid |-> TRUE]

\* pydantic's conversion of an input to the field's type (lax mode): the
\* converted value, or Invalid.
coerce(type, v) ==
    CASE type = "str" -> IF v.t = "str" THEN v ELSE Invalid
      [] type = "float" ->
            IF v.t = "float" THEN v
            ELSE IF v.t = "int" THEN PyFloat(v.i * 100)
            ELSE IF v.t = "bool" THEN PyFloat(IF v.b THEN 100 ELSE 0)
            ELSE Invalid
      [] type = "int" ->
            IF v.t = "int" THEN v
            ELSE IF v.t = "float" /\ v.c % 100 = 0 THEN PyInt(v.c \div 100)
            ELSE IF v.t = "bool" THEN PyInt(IF v.b THEN 1 ELSE 0)
            ELSE Invalid
      [] type = "bool" ->
            IF v.t = "bool" THEN v
            ELSE IF IsNumber(v) /\ NumC(v) \in {0, 100} THEN PyBool(NumC(v) = 100)
            ELSE Invalid
      [] OTHER ->
            IF v.t = "None" THEN v
            ELSE IF v.t = "int" THEN v
            ELSE IF v.t = "float" /\ v.c % 100 = 0 THEN PyInt(v.c \div 100)
            ELSE IF v.t = "bool" THEN PyInt(IF v.b THEN 1 ELSE 0)
            ELSE Invalid

\* Faulty variant, for comparison: the upper bounds are not applied.
within_ge_only(f, v) == f.has_ge => NumC(v) >= f.ge

\* Field(..., ge=, le=)
within(f, v) ==
    /\ f.has_ge => NumC(v) >= f.ge
    /\ f.has_le => NumC(v) <= f.le

\* One field of TTSRequest(**d): the value it gets, or Invalid.
validate_field(f, d) ==
    IF f.name \notin DOMAIN d
    THEN IF f.required THEN Invalid ELSE f.default
    ELSE LET v == coerce(f.type, d[f.name])
         IN  IF v = Invalid THEN Invalid
             ELSE IF within(f, v) THEN v ELSE Invalid

\* TTSRequest(**request_dict): the model instance, or the exception raised
\* (TypeError when request_dict is no mapping, else pydantic's
\* ValidationError naming the fields that failed).  Unknown keys are ignored.
TTSRequest(request_dict) ==
    IF request_dict.t # "dict" THEN [exc |-> "TypeError", text |-> {"not a mapping"}]
    ELSE LET d == request_dict.d
             bad == {i \in DOMAIN TTSRequestFields : validate_field(TTSRequestFields[i], d) = Invalid}
         IN  IF bad # {}
             THEN [exc |-> "ValidationError",
                   text |-> {TTSRequestFields[i].name : i \in bad}]
             ELSE [n \in FieldNames |->
                      validate_field(
                          TTSRequestFields[CHOOSE i \in DOMAIN TTSRequestFields :
                                              TTSRequestFields[i].name = n], d)]

-----------------------------------------------------------------------------
(* HTTP responses, as FastAPI builds them from a handler's return value or  *)
(* from the HTTPException it raises                                        *)

NoHeaders == [h \in {} |-> PyNone]
NoDetail == [msg |-> "", text |-> {}]

HTTPException(status_code, msg, text) ==
    [exc |-> "HTTPException", status_code |-> status_code,
     detail |-> [msg |-> msg, text |-> text]]

\* A handler's returned model or dict, sent as JSON with status 200.
JSONResponse(content) ==
    [status |-> 200, detail |-> NoDetail, body |-> [json |-> content], headers |-> NoHeaders]

StreamingResponse(content, headers) ==
    [status |-> 200, detail |-> NoDetail, body |-> content, headers |-> headers]

\* FastAPI's handling of a raised HTTPException.
ErrorResponse(e) ==
    [status |-> e.status_code, detail |-> e.detail,
     body |-> [json |-> [detail |-> e.detail]], headers |-> NoHeaders]

\* A handler's result (a response, or the HTTPException it raised) on the wire.
Respond(r) == IF IsExc(r) THEN ErrorResponse(r) ELSE r

ModelNotLoaded == HTTPException(503, "model not loaded", {})

-----------------------------------------------------------------------------
(* The handlers of api_server.py, as functions of the global and the request *)

\* The attributes of the F5TTS object that the handlers read.
ModelDevice == "cuda"

\* Faulty variant, for comparison: reports the model loaded without looking at the global.
health_check_always_healthy(model) ==
    JSONResponse([status |-> "healthy", model_loaded |-> TRUE, device |-> ModelDevice])

\* health_check (121-137)
health_check_handler(model) ==
    IF model = None
    THEN JSONResponse([status |-> "unhealthy", model_loaded |-> FALSE, device |-> "unknown"])
    ELSE JSONResponse([status |-> "healthy", model_loaded |-> TRUE, device |-> ModelDevice])

\* Faulty variant, for comparison: the None check is missing.
get_model_info_unchecked(model) ==
    JSONResponse([model_name |-> "F5TTS_v1_Base", device |-> ModelDevice,
                  mel_spec_type |-> "vocos", target_sample_rate |-> 24000])

\* get_model_info (140-156)
get_model_info_handler(model) ==
    IF model = None THEN ModelNotLoaded
    ELSE JSONResponse([model_name |-> "F5TTS_v1_Base", device |-> ModelDevice,
                       mel_spec_type |-> "vocos", target_sample_rate |-> 24000])

\* root (339-353)
root_handler ==
    JSONResponse([message |-> "F5-TTS API", version |-> "1.0.0"])

\* synthesize_speech 180-198: the try block up to the upload check.  The
\* validated TTSRequest, or the exception raised.
synthesize_parse(ref_audio, request_data) ==
    LET request_dict == json_loads(request_data)
    IN  IF IsExc(request_dict) THEN request_dict
        ELSE LET request == TTSRequest(request_dict)
             IN  IF IsExc(request) THEN request
                 ELSE IF upload_rejected(ref_audio)
                 THEN HTTPException(400, "upload must be audio", {})
                 ELSE request

\* Faulty variant, for comparison: `except Exception` comes before `except HTTPException`.
synthesize_except_generic_first(e) ==
    IF e.exc = "JSONDecodeError" THEN HTTPException(400, "request JSON malformed", e.text)
    ELSE IF e.exc = "HTTPException"
    THEN HTTPException(500, "TTS synthesis failed", {"HTTPException"} \cup e.detail.text)
    ELSE HTTPException(500, "TTS synthesis failed", e.text)

\* synthesize_speech 249-266: the except clauses.
synthesize_except(e) ==
    IF e.exc = "JSONDecodeError" THEN HTTPException(400, "request JSON malformed", e.text)
    ELSE IF e.exc = "HTTPException" THEN e
    ELSE HTTPException(500, "TTS synthesis failed", e.text)

\* transcribe_audio 288-303: the try block up to the upload check.
transcribe_parse(audio) ==
    IF upload_rejected(audio) THEN HTTPException(400, "upload must be audio", {})
    ELSE [ok |-> TRUE]

\* transcribe_audio 324-336: the except clauses.
transcribe_except(e) ==
    IF e.exc = "HTTPException" THEN e
    ELSE HTTPException(500, "transcription failed", e.text)

\* str() of a value, as a response header carries it.
str(v) == [repr |-> v]

\* synthesize_speech 208-220: the keyword arguments of tts_model.infer, with
\* the bytes of the file at ref_file when the call is made.
infer_call(ref_file_bytes, request) ==
    [op |-> "infer", ref_file |-> ref_file_bytes,
     ref_text |-> request.ref_text, gen_text |-> request.gen_text,
     target_rms |-> request.target_rms,
     cross_fade_duration |-> request.cross_fade_duration,
     speed |-> request.speed, nfe_step |-> request.nfe_step,
     cfg_strength |-> request.cfg_strength,
     sway_sampling_coef |-> request.sway_sampling_coef,
     remove_silence |-> request.remove_silence, seed |-> request.seed]

\* transcribe_audio 313
transcribe_call(audio_bytes, language) ==
    [op |-> "transcribe", ref_file |-> audio_bytes, language |-> language]

NoCall == [op |-> "none"]

\* What tts_model.infer can do: return (wav, sr, spec), leaving the model's
\* seed attribute set or not, or raise.  wav is kept by its length.
InferOutcomes ==
    {[ok |-> TRUE, wav_len |-> 36000, sr |-> 24000, seed_attr |-> a] :
        a \in {[has |-> FALSE], [has |-> TRUE, v |-> PyInt(42)], [has |-> TRUE, v |-> PyInt(7)]}}
    \cup {[ok |-> FALSE, error |-> {"infer"}]}

\* What tts_model.transcribe can do.
TranscribeOutcomes ==
    {[ok |-> TRUE, text |-> "hello"], [ok |-> FALSE, error |-> {"asr"}]}

\* synthesize_speech 222-247, after infer returned: the WAV is encoded
\* (sf.write may raise), the duration computed and the response built.
\* cleaned tells whether 234-235 were reached.
synthesize_finish(out, encode_ok) ==
    IF ~out.ok THEN [result |-> [exc |-> "Exception", text |-> out.error], cleaned |-> FALSE]
    ELSE IF ~encode_ok
    THEN [result |-> [exc |-> "Exception", text |-> {"sf.write"}], cleaned |-> FALSE]
    ELSE [result |->
             StreamingResponse(
                 [wav |-> out.wav_len, sr |-> out.sr],
                 [h \in {"X-Audio-Duration", "X-Sample-Rate", "X-Seed"} |->
                     CASE h = "X-Audio-Duration" -> str(PyFloat((out.wav_len * 100) \div out.sr))
                       [] h = "X-Sample-Rate" -> str(PyInt(out.sr))
                       [] OTHER -> IF out.seed_attr.has THEN str(out.seed_attr.v)
                                   ELSE PyStr("null")]),
          cleaned |-> TRUE]

\* transcribe_audio 313-322, after transcribe returned or raised.
transcribe_finish(out, language) ==
    IF ~out.ok THEN [result |-> [exc |-> "Exception", text |-> out.error], cleaned |-> FALSE]
    ELSE [result |-> JSONResponse([text |-> out.text, language |-> language]),
          cleaned |-> TRUE]

-----------------------------------------------------------------------------
(* The requests an HTTP client can send *)

CT_none == <<>>
CT_audio == <<"a", "u", "d", "i", "o", "/", "w", "a", "v">>
CT_Audio == <<"A", "u", "d", "i", "o", "/", "w", "a", "v">>
CT_octet == OctetStream
CT_text == <<"t", "e", "x", "t", "/", "p", "l", "a", "i", "n">>
CT_audio_bare == <<"a", "u", "d", "i", "o">>

FN_none == <<>>
FN_wav == <<"a", ".", "w", "a", "v">>
FN_WAV == <<"A", ".", "W", "A", "V">>
FN_Mp3 == <<"a", ".", "M", "p", "3">>
FN_flac == <<"x", ".", "f", "l", "a", "c">>
FN_m4a == <<".", "m", "4", "a">>
FN_OGG == <<"a", ".", "O", "G", "G">>
FN_txt == <<"a", ".", "t", "x", "t">>
FN_wav_txt == <<"a", ".", "w", "a", "v", ".", "t", "x", "t">>
FN_wav_nodot == <<"w", "a", "v">>

Upload(content_type, filename, bytes) ==
    [content_type |-> content_type, filename |-> filename, bytes |-> bytes]

NoUpload == Upload(<<>>, <<>>, "")

\* An upload that passes both checks, and one that fails both.
GoodUpload == Upload(CT_audio, FN_wav, "b1")
BadUpload == Upload(CT_text, FN_txt, "b1")

Uploads ==
    { GoodUpload, BadUpload,
      Upload(CT_none, FN_none, "b1"),
      Upload(CT_none, FN_txt, "b1"),
      Upload(CT_text, FN_none, "b1"),
      Upload(CT_text, FN_WAV, "b1"),
      Upload(CT_text, FN_Mp3, "b1"),
      Upload(CT_text, FN_flac, "b1"),
      Upload(CT_text, FN_m4a, "b1"),
      Upload(CT_text, FN_OGG, "b1"),
      Upload(CT_text, FN_wav_txt, "b1"),
      Upload(CT_text, FN_wav_nodot, "b1"),
      Upload(CT_octet, FN_txt, "b1"),
      Upload(CT_audio, FN_txt, "b1"),
      Upload(CT_Audio, FN_txt, "b1"),
      Upload(CT_audio_bare, FN_txt, "b1") }

\* A JSON object written from its items.
Obj(items) == json_dumps(items)

Texts == <<<<"ref_text", PyStr("hi")>>, <<"gen_text", PyStr("yo")>>>>

\* request_data documents that TTSRequest accepts
ValidDocs ==
    { Obj(Texts),
      Obj(Texts \o << <<"target_rms", PyInt(0)>>, <<"cross_fade_duration", PyFloat(0)>>,
                      <<"speed", PyFloat(10)>>, <<"nfe_step", PyInt(1)>>,
                      <<"cfg_strength", PyFloat(0)>>, <<"sway_sampling_coef", PyFloat(50)>>,
                      <<"remove_silence", PyBool(TRUE)>>, <<"seed", PyInt(42)>> >>),
      Obj(Texts \o << <<"target_rms", PyFloat(100)>>, <<"speed", PyInt(3)>>,
                      <<"nfe_step", PyFloat(12800)>>, <<"cfg_strength", PyInt(10)>>,
                      <<"seed", PyNone>>, <<"extra", PyStr("ignored")>> >>),
      Obj(Texts \o << <<"speed", PyFloat(500)>>, <<"speed", PyFloat(120)>> >>) }

\* request_data documents that parse as JSON and fail TTSRequest
InvalidDocs ==
    { Obj(<<Texts[1]>>), Obj(<<Texts[2]>>), <<JP("{"), JP("}")>>,
      Obj(Texts \o <<<<"target_rms", PyFloat(101)>>>>),
      Obj(Texts \o <<<<"target_rms", PyFloat(-1)>>>>),
      Obj(Texts \o <<<<"cross_fade_duration", PyFloat(-1)>>>>),
      Obj(Texts \o <<<<"speed", PyFloat(9)>>>>),
      Obj(Texts \o <<<<"speed", PyFloat(301)>>>>),
      Obj(Texts \o <<<<"nfe_step", PyInt(0)>>>>),
      Obj(Texts \o <<<<"nfe_step", PyInt(129)>>>>),
      Obj(Texts \o <<<<"nfe_step", PyStr("many")>>>>),
      Obj(Texts \o <<<<"cfg_strength", PyFloat(-1)>>>>),
      Obj(Texts \o <<<<"cfg_strength", PyFloat(1001)>>>>),
      Obj(Texts \o <<<<"remove_silence", PyInt(2)>>>>),
      Obj(Texts \o <<<<"seed", PyStr("x")>>>>),
      Obj(Texts \o <<<<"speed", PyFloat(120)>>, <<"speed", PyFloat(500)>>>>),
      <<JLit("null")>>, <<JInt(42)>>, <<JP("["), JP("]")>> }

\* request_data that is not JSON
MalformedDocs ==
    { <<>>,
      <<JWord("hello")>>,
      <<JP("{"), JString("ref_text"), JP(":"), JString("hi")>>,
      <<JP("{"), JString("ref_text"), JP(":"), JString("hi"), JP(","), JP("}")>>,
      <<JP("{"), JString("ref_text"), JP(":"), JWord("None"), JP("}")>>,
      <<JP("{"), JString("ref_text"), JString("hi"), JP("}")>>,
      Obj(Texts) \o <<JP("}")>> }

Docs == ValidDocs \cup InvalidDocs \cup MalformedDocs

\* The default document, used where the upload is what varies.
DefaultDoc == Obj(Texts)

\* /tts/synthesize requests: every upload with the default document, and every
\* document with an upload that passes and one that fails the upload check.
SynthesizeRequests ==
    {[ref_audio |-> u, request_data |-> DefaultDoc] : u \in Uploads}
    \cup {[ref_audio |-> u, request_data |-> d] : u \in {GoodUpload, BadUpload}, d \in Docs}

\* /tts/transcribe requests
TranscribeRequests ==
    {[audio |-> u, language |-> PyNone] : u \in Uploads}
    \cup {[audio |-> u, language |-> PyStr("en")] : u \in {GoodUpload, BadUpload}}

-----------------------------------------------------------------------------
(* State *)

NoRequest == [none |-> TRUE]
NoResponse == [status |-> 0, detail |-> NoDetail, body |-> [none |-> TRUE], headers |-> NoHeaders]

NoExc == [exc |-> "none", text |-> {}]

\* The record of a handler segment: what it was given, what it did, and the
\* response when it ended the request.
NoExchange ==
    [endpoint |-> "none", stage |-> "entry", model_loaded |-> FALSE,
     upload |-> NoUpload, request_data |-> <<>>, language |-> PyNone,
     parsed |-> FALSE, temp_dir |-> 0, request |-> NoRequest, call |-> NoCall,
     raised |-> NoExc, done |-> FALSE, resp |-> NoResponse, cleaned |-> FALSE,
     origin |-> "raw"]

NoFile == [exists |-> FALSE]
File(content) == [exists |-> TRUE, content |-> content]

NoArgs == [none |-> TRUE]
NoRet == [none |-> TRUE]

\* No call of the client library in progress.
ClientIdle ==
    [pc |-> "idle", op |-> "none", args |-> NoArgs, before |-> NoFile,
     response |-> NoResponse, ret |-> NoRet]

\* The example program before main() runs.  calls, saw_loaded and hint record
\* the requests it has issued, whether a health check answered
\* model_loaded=true, and whether the start-the-server hint was printed.
MainStart ==
    [pc |-> "start", i |-> 0, ref_exists |-> TRUE, calls |-> {}, saw_loaded |-> FALSE,
     hint |-> FALSE]

\* The files the client library and the example program write.
OutputPaths ==
    {"out.wav", "api_test_english.wav", "api_test_mixed.wav", "api_test_fast.wav",
     "perf_test_1.wav", "perf_test_2.wav", "perf_test_3.wav"}

NoFiles == [p \in OutputPaths |-> NoFile]

Init ==
    /\ phase = "created"
    /\ tts_model = None
    /\ temp_dirs = {}
    /\ temp_files = [d \in {} |-> ""]
    /\ frames = {}
    /\ last = NoExchange
    /\ startup_log = "none"
    /\ client = ClientIdle
    /\ out_file = NoFiles
    /\ main = MainStart

AllIdle == frames = {}

-----------------------------------------------------------------------------
(* Server lifecycle *)

\* F5TTS(): the object, or None when the constructor raises (startup_event's
\* except clause assigns None).
construct_model(ok) == IF ok THEN "F5TTS" ELSE None

\* startup_event (98-108).  uvicorn serves requests once it has returned.
Startup(ok) ==
    /\ phase = "created"
    /\ tts_model' = construct_model(ok)
    /\ startup_log' = IF ok THEN "loaded" ELSE "failed"
    /\ phase' = "running"
    /\ UNCHANGED <<temp_dirs, temp_files, frames, last>>

\* shutdown_event (111-118).  uvicorn runs it once the open requests ended.
Shutdown ==
    /\ phase = "running"
    /\ AllIdle
    /\ tts_model' = IF tts_model # None THEN None ELSE tts_model
    /\ phase' = "stopped"
    /\ UNCHANGED <<temp_dirs, temp_files, frames, last, startup_log>>

-----------------------------------------------------------------------------
(* Request handlers.  A handler runs without interruption up to its await  *)
(* (the read of the upload) and from there to its end.                     *)

Serving == phase = "running"

\* tempfile.mkdtemp(): a directory that does not exist yet.
mkdtemp == CHOOSE d \in 1..MaxTmp : d \notin temp_dirs /\ \A e \in 1..(d - 1) : e \in temp_dirs

\* os.unlink(path): the files without the one in directory d.
unlink(files, d) == [e \in DOMAIN files \ {d} |-> files[e]]

\* open(path, "wb"): the file in directory d, created empty.
create(files, d) == [e \in DOMAIN files \cup {d} |-> IF e = d THEN "" ELSE files[e]]

\* Faulty variant, for comparison: a health check that retries the construction of the model.
HealthCheckReloads ==
    /\ Serving
    /\ tts_model' = "F5TTS"
    /\ last' = [NoExchange EXCEPT !.endpoint = "health",
                    !.model_loaded = tts_model # None, !.done = TRUE,
                    !.resp = Respond(health_check_handler(tts_model))]
    /\ UNCHANGED <<phase, temp_dirs, temp_files, frames, startup_log>>

\* GET /health
HealthCheck ==
    /\ Serving
    /\ last' = [NoExchange EXCEPT !.endpoint = "health",
                    !.model_loaded = tts_model # None, !.done = TRUE,
                    !.resp = Respond(health_check_handler(tts_model))]
    /\ UNCHANGED <<phase, tts_model, temp_dirs, temp_files, frames, startup_log>>

\* GET /model/info
GetModelInfo ==
    /\ Serving
    /\ last' = [NoExchange EXCEPT !.endpoint = "info",
                    !.model_loaded = tts_model # None, !.done = TRUE,
                    !.resp = Respond(get_model_info_handler(tts_model))]
    /\ UNCHANGED <<phase, tts_model, temp_dirs, temp_files, frames, startup_log>>

\* GET /
Root ==
    /\ Serving
    /\ last' = [NoExchange EXCEPT !.endpoint = "root",
                    !.model_loaded = tts_model # None, !.done = TRUE,
                    !.resp = Respond(root_handler)]
    /\ UNCHANGED <<phase, tts_model, temp_dirs, temp_files, frames, startup_log>>

\* POST /tts/synthesize, lines 169-205: from entry to `await ref_audio.read()`.
SynthesizeEntry(ref_audio, request_data, origin, limit) ==
    /\ Serving
    /\ LET seen == [NoExchange EXCEPT !.endpoint = "synthesize", !.upload = ref_audio,
                        !.request_data = request_data, !.origin = origin,
                        !.model_loaded = tts_model # None]
       IN  IF tts_model = None
           THEN /\ last' = [seen EXCEPT !.done = TRUE, !.resp = Respond(ModelNotLoaded)]
                /\ UNCHANGED <<temp_dirs, temp_files, frames>>
           ELSE LET r == synthesize_parse(ref_audio, request_data)
                IN  IF IsExc(r)
                    THEN /\ last' = [seen EXCEPT !.parsed = TRUE, !.done = TRUE, !.raised = r,
                                        !.resp = Respond(synthesize_except(r))]
                         /\ UNCHANGED <<temp_dirs, temp_files, frames>>
                    ELSE /\ Cardinality(frames) < limit
                         /\ Cardinality(temp_dirs) < MaxTmp
                         /\ temp_dirs' = temp_dirs \cup {mkdtemp}
                         /\ temp_files' = create(temp_files, mkdtemp)
                         /\ frames' = frames \cup
                               {[endpoint |-> "synthesize", request |-> r,
                                 language |-> PyNone, bytes |-> ref_audio.bytes,
                                 temp_dir |-> mkdtemp, origin |-> origin]}
                         /\ last' = [seen EXCEPT !.parsed = TRUE, !.request = r,
                                        !.temp_dir = mkdtemp]
    /\ UNCHANGED <<phase, tts_model, startup_log>>

\* POST /tts/synthesize, lines 205-266: from the read's return to the end.
SynthesizeResume(f, out, encode_ok) ==
    /\ f \in frames
    /\ f.endpoint = "synthesize"
    /\ LET written == [temp_files EXCEPT ![f.temp_dir] = f.bytes]
           fin == IF tts_model = None
                  THEN [result |-> [exc |-> "AttributeError", text |-> {"infer"}],
                        cleaned |-> FALSE]
                  ELSE synthesize_finish(out, encode_ok)
           result == IF IsExc(fin.result) THEN synthesize_except(fin.result) ELSE fin.result
       IN  /\ temp_files' = IF fin.cleaned THEN unlink(written, f.temp_dir) ELSE written
           /\ temp_dirs' = IF fin.cleaned THEN temp_dirs \ {f.temp_dir} ELSE temp_dirs
           /\ last' = [NoExchange EXCEPT !.endpoint = "synthesize", !.stage = "resume",
                          !.model_loaded = tts_model # None, !.origin = f.origin,
                          !.temp_dir = f.temp_dir, !.request = f.request,
                          !.call = IF tts_model = None THEN NoCall
                                   ELSE infer_call(written[f.temp_dir], f.request),
                          !.raised = IF IsExc(fin.result) THEN fin.result ELSE NoExc,
                          !.done = TRUE, !.resp = Respond(result),
                          !.cleaned = fin.cleaned]
           /\ frames' = frames \ {f}
    /\ UNCHANGED <<phase, tts_model, startup_log>>

\* POST /tts/transcribe, lines 279-310: from entry to `await audio.read()`.
TranscribeEntry(audio, language, origin, limit) ==
    /\ Serving
    /\ LET seen == [NoExchange EXCEPT !.endpoint = "transcribe", !.upload = audio,
                        !.language = language, !.origin = origin,
                        !.model_loaded = tts_model # None]
       IN  IF tts_model = None
           THEN /\ last' = [seen EXCEPT !.done = TRUE, !.resp = Respond(ModelNotLoaded)]
                /\ UNCHANGED <<temp_dirs, temp_files, frames>>
           ELSE LET r == transcribe_parse(audio)
                IN  IF IsExc(r)
                    THEN /\ last' = [seen EXCEPT !.done = TRUE, !.raised = r,
                                        !.resp = Respond(transcribe_except(r))]
                         /\ UNCHANGED <<temp_dirs, temp_files, frames>>
                    ELSE /\ Cardinality(frames) < limit
                         /\ Cardinality(temp_dirs) < MaxTmp
                         /\ temp_dirs' = temp_dirs \cup {mkdtemp}
                         /\ temp_files' = create(temp_files, mkdtemp)
                         /\ frames' = frames \cup
                               {[endpoint |-> "transcribe",
                                 request |-> NoRequest, language |-> language,
                                 bytes |-> audio.bytes, temp_dir |-> mkdtemp,
                                 origin |-> origin]}
                         /\ last' = [seen EXCEPT !.temp_dir = mkdtemp]
    /\ UNCHANGED <<phase, tts_model, startup_log>>

\* POST /tts/transcribe, lines 310-336: from the read's return to the end.
TranscribeResume(f, out) ==
    /\ f \in frames
    /\ f.endpoint = "transcribe"
    /\ LET written == [temp_files EXCEPT ![f.temp_dir] = f.bytes]
           fin == IF tts_model = None
                  THEN [result |-> [exc |-> "AttributeError", text |-> {"transcribe"}],
                        cleaned |-> FALSE]
                  ELSE transcribe_finish(out, f.language)
           result == IF IsExc(fin.result) THEN transcribe_except(fin.result) ELSE fin.result
       IN  /\ temp_files' = IF fin.cleaned THEN unlink(written, f.temp_dir) ELSE written
           /\ temp_dirs' = IF fin.cleaned THEN temp_dirs \ {f.temp_dir} ELSE temp_dirs
           /\ last' = [NoExchange EXCEPT !.endpoint = "transcribe", !.stage = "resume",
                          !.model_loaded = tts_model # None, !.language = f.language,
                          !.origin = f.origin,
                          !.temp_dir = f.temp_dir,
                          !.call = IF tts_model = None THEN NoCall
                                   ELSE transcribe_call(written[f.temp_dir], f.language),
                          !.raised = IF IsExc(fin.result) THEN fin.result ELSE NoExc,
                          !.done = TRUE, !.resp = Respond(result),
                          !.cleaned = fin.cleaned]
           /\ frames' = frames \ {f}
    /\ UNCHANGED <<phase, tts_model, startup_log>>

-----------------------------------------------------------------------------
(* The server under arbitrary HTTP clients *)

clientVars == <<client, out_file, main>>

\* A small set of requests with one of each kind of outcome.
BoundaryDoc ==
    Obj(Texts \o << <<"target_rms", PyFloat(100)>>, <<"speed", PyInt(3)>>,
                    <<"nfe_step", PyFloat(12800)>>, <<"cfg_strength", PyInt(10)>>,
                    <<"seed", PyNone>>, <<"extra", PyStr("ignored")>> >>)

CoreSynthesizeRequests ==
    {[ref_audio |-> u, request_data |-> d] :
        u \in {GoodUpload, BadUpload},
        d \in {DefaultDoc, BoundaryDoc, Obj(Texts \o <<<<"speed", PyFloat(301)>>>>),
               <<JWord("hello")>>}}

CoreTranscribeRequests ==
    {[audio |-> GoodUpload, language |-> PyNone], [audio |-> BadUpload, language |-> PyNone],
     [audio |-> GoodUpload, language |-> PyStr("en")]}

\* Concurrent requests.
Next ==
    \/ \E ok \in BOOLEAN : Startup(ok) /\ UNCHANGED clientVars
    \/ Shutdown /\ UNCHANGED clientVars
    \/ HealthCheck /\ UNCHANGED clientVars
    \/ GetModelInfo /\ UNCHANGED clientVars
    \/ Root /\ UNCHANGED clientVars
    \/ \E q \in CoreSynthesizeRequests :
          SynthesizeEntry(q.ref_audio, q.request_data, "raw", MaxTmp) /\ UNCHANGED clientVars
    \/ \E f \in frames, out \in InferOutcomes, encode_ok \in BOOLEAN :
          SynthesizeResume(f, out, encode_ok) /\ UNCHANGED clientVars
    \/ \E q \in CoreTranscribeRequests :
          TranscribeEntry(q.audio, q.language, "raw", MaxTmp) /\ UNCHANGED clientVars
    \/ \E f \in frames, out \in TranscribeOutcomes :
          TranscribeResume(f, out) /\ UNCHANGED clientVars

Spec == Init /\ [][Next]_vars

\* Every request input, few requests at a time.
NextInputs ==
    \/ \E ok \in BOOLEAN : Startup(ok) /\ UNCHANGED clientVars
    \/ Shutdown /\ UNCHANGED clientVars
    \/ HealthCheck /\ UNCHANGED clientVars
    \/ GetModelInfo /\ UNCHANGED clientVars
    \/ Root /\ UNCHANGED clientVars
    \/ \E q \in SynthesizeRequests :
          SynthesizeEntry(q.ref_audio, q.request_data, "raw", MaxWideInFlight)
          /\ UNCHANGED clientVars
    \/ \E f \in frames, out \in InferOutcomes, encode_ok \in BOOLEAN :
          SynthesizeResume(f, out, encode_ok) /\ UNCHANGED clientVars
    \/ \E q \in TranscribeRequests :
          TranscribeEntry(q.audio, q.language, "raw", MaxWideInFlight) /\ UNCHANGED clientVars
    \/ \E f \in frames, out \in TranscribeOutcomes :
          TranscribeResume(f, out) /\ UNCHANGED clientVars

SpecInputs == Init /\ [][NextInputs]_vars

-----------------------------------------------------------------------------
(* Claims about the server *)

ModelEndpoints == {"info", "synthesize", "transcribe"}
UploadEndpoints == {"synthesize", "transcribe"}

\* C1: while tts_model is None, every call to /model/info, /tts/synthesize
\* and /tts/transcribe ends with 503, before request_data is parsed, with no
\* temporary directory or file created and no call to the model, whatever
\* the request contains.
C1_UnloadedIs503 ==
    (last.endpoint \in ModelEndpoints /\ ~last.model_loaded) =>
        /\ last.done
        /\ last.resp.status = 503
        /\ ~last.parsed
        /\ last.temp_dir = 0
        /\ last.call = NoCall
        /\ last.request = NoRequest

C1_Witness ==
    /\ last.endpoint = "synthesize"
    /\ ~last.model_loaded
    /\ last.request_data \in MalformedDocs
    /\ last.upload = BadUpload
    /\ last.resp.status = 503

\* C2: GET /health always answers 200: healthy with model_loaded true exactly
\* when the model is loaded, unhealthy with model_loaded false and device
\* "unknown" exactly when it is not; so /health reports model_loaded true iff
\* /model/info in the same state does not answer 503.
C2_HealthMirrorsModel ==
    /\ last.endpoint = "health" =>
          /\ last.done
          /\ last.resp.status = 200
          /\ last.resp.body.json =
                IF last.model_loaded
                THEN [status |-> "healthy", model_loaded |-> TRUE, device |-> ModelDevice]
                ELSE [status |-> "unhealthy", model_loaded |-> FALSE, device |-> "unknown"]
    /\ Respond(health_check_handler(tts_model)).body.json.model_loaded
          <=> Respond(get_model_info_handler(tts_model)).status # 503

C2_Witness ==
    /\ last.endpoint = "health"
    /\ last.model_loaded
    /\ last.resp.body.json.status = "healthy"
    /\ temp_dirs # {}

\* C3 (as claimed): once no request is in flight, no temporary directory or
\* file that a request created remains, whatever the requests' outcomes.
C3_TempFilesCleaned ==
    AllIdle => (temp_dirs = {} /\ DOMAIN temp_files = {})

\* The TTSRequest bounds as the claim states them, on keyword arguments.
ArgsInBounds(a) ==
    /\ a.ref_text.t = "str" /\ a.gen_text.t = "str"
    /\ 0 <= NumC(a.target_rms) /\ NumC(a.target_rms) <= 100
    /\ 0 <= NumC(a.cross_fade_duration)
    /\ 10 <= NumC(a.speed) /\ NumC(a.speed) <= 300
    /\ a.nfe_step.t = "int" /\ 1 <= a.nfe_step.i /\ a.nfe_step.i <= 128
    /\ 0 <= NumC(a.cfg_strength) /\ NumC(a.cfg_strength) <= 1000

\* C4: infer is only called with parameters inside the TTSRequest bounds and
\* with ref_text and gen_text present; a request_data that violates a bound
\* or omits a required field ends the request without reaching infer and
\* without creating a temporary file.
C4_InferWithinBounds ==
    /\ last.call.op = "infer" => ArgsInBounds(last.call)
    /\ \A f \in frames : f.endpoint = "synthesize" => ArgsInBounds(f.request)
    /\ (last.endpoint = "synthesize" /\ last.stage = "entry"
            /\ last.request_data \in InvalidDocs) =>
          /\ last.done
          /\ last.temp_dir = 0
          /\ last.call = NoCall
          /\ \A f \in frames : f.temp_dir \in temp_dirs

C4_Witness ==
    /\ last.call.op = "infer"
    /\ NumC(last.call.speed) = 300
    /\ last.call.nfe_step = PyInt(128)
    /\ NumC(last.call.target_rms) = 100

\* The uploads of the model that fail the content-type check and the file-name
\* check, listed by hand from the claim's wording.
FailsContentType(upload) == upload.content_type \in {CT_text, CT_Audio, CT_audio_bare}
FailsFilename(upload) == upload.filename \in {FN_txt, FN_wav_txt, FN_wav_nodot}
FailsBoth(upload) == FailsContentType(upload) /\ FailsFilename(upload)

NonAudio400(resp) == resp.status = 400 /\ resp.detail.msg = "upload must be audio"

\* C5 (as claimed): with the model loaded, an upload to either endpoint is
\* rejected with the non-audio 400 exactly when it fails both checks.
C5_RejectedIffBothFail ==
    (last.endpoint \in UploadEndpoints /\ last.stage = "entry" /\ last.model_loaded) =>
        (NonAudio400(last.resp) <=> FailsBoth(last.upload))

\* C5 (amended): with the model loaded, an upload to /tts/transcribe is
\* rejected with the non-audio 400 exactly when it fails both checks; an
\* upload to /tts/synthesize exactly when it fails both checks and
\* request_data is valid JSON that passes TTSRequest validation.  A rejected
\* upload creates no temporary file and the model is not called; an upload
\* that passes proceeds to the temporary file.
C5_RejectedIffBothFailAndDataValid ==
    /\ (last.endpoint \in UploadEndpoints /\ last.stage = "entry" /\ last.model_loaded) =>
          /\ NonAudio400(last.resp) <=>
                /\ FailsBoth(last.upload)
                /\ last.endpoint = "synthesize" => last.request_data \in ValidDocs
          /\ NonAudio400(last.resp) =>
                /\ last.done
                /\ last.temp_dir = 0
                /\ last.call = NoCall
          /\ (~FailsBoth(last.upload)
                /\ (last.endpoint = "synthesize" => last.request_data \in ValidDocs)) =>
                /\ ~last.done
                /\ last.temp_dir \in temp_dirs
    /\ (last.endpoint \in UploadEndpoints /\ last.stage = "resume") =>
          ~NonAudio400(last.resp)

C5_Witness ==
    /\ last.endpoint = "synthesize"
    /\ last.model_loaded
    /\ last.upload = Upload(CT_text, FN_WAV, "b1")
    /\ ~last.done
    /\ last.temp_dir \in temp_dirs

\* C6: with the model loaded, /tts/synthesize answers 400 to request_data that
\* is not JSON, passes an HTTPException raised in the handler through with its
\* own status, and answers 500 with the exception text to every other failure
\* (request_data that is JSON but fails TTSRequest, a failure of the model
\* call or of the encoding); /tts/transcribe does the same without the JSON
\* case.  Every request ends with 200 or one of these statuses.
C6_ErrorStatusMapping ==
    (last.endpoint \in UploadEndpoints /\ last.model_loaded) =>
        /\ (last.endpoint = "synthesize" /\ last.stage = "entry"
                /\ last.request_data \in MalformedDocs) =>
              last.done /\ last.resp.status = 400 /\ last.raised.exc = "JSONDecodeError"
        /\ (last.endpoint = "synthesize" /\ last.stage = "entry"
                /\ last.request_data \in InvalidDocs) =>
              /\ last.done /\ last.resp.status = 500
              /\ last.raised.exc \in {"ValidationError", "TypeError"}
        /\ (last.stage = "entry" /\ FailsBoth(last.upload)
                /\ (last.endpoint = "synthesize" => last.request_data \in ValidDocs)) =>
              /\ last.done /\ last.resp.status = 400
              /\ last.raised.exc = "HTTPException"
        /\ last.raised.exc = "HTTPException" =>
              /\ last.resp.status = last.raised.status_code
              /\ last.resp.status # 500
              /\ last.resp.detail = last.raised.detail
        /\ last.raised.exc = "JSONDecodeError" =>
              last.endpoint = "synthesize" /\ last.resp.status = 400
        /\ last.raised.exc \notin {"none", "HTTPException", "JSONDecodeError"} =>
              /\ last.resp.status = 500
              /\ last.resp.detail.text = last.raised.text
              /\ last.raised.text # {}
        /\ last.done =>
              /\ last.resp.status \in {200, 400, 500}
              /\ last.resp.status = 200 <=> last.raised = NoExc
        /\ ~last.done => last.stage = "entry" /\ last.raised = NoExc

C6_Witness ==
    /\ last.endpoint = "synthesize"
    /\ last.model_loaded
    /\ last.upload = BadUpload
    /\ last.request_data = DefaultDoc
    /\ last.raised.exc = "HTTPException"
    /\ last.resp.status = 400

\* C10: the global model changes only at startup and shutdown.  After a failed
\* construction the server runs with the model unloaded until shutdown, every
\* /health answer is unhealthy and every model endpoint answers 503; after a
\* successful one the model stays loaded until shutdown; after shutdown it is
\* None.
C10_ModelSetOnlyAtStartupAndShutdown ==
    /\ phase = "created" => tts_model = None /\ startup_log = "none"
    /\ phase = "running" =>
          /\ startup_log \in {"loaded", "failed"}
          /\ tts_model = IF startup_log = "loaded" THEN "F5TTS" ELSE None
    /\ phase = "stopped" => tts_model = None
    /\ startup_log = "failed" =>
          /\ last.endpoint # "none" => ~last.model_loaded
          /\ last.endpoint = "health" => last.resp.body.json.status = "unhealthy"
          /\ last.endpoint \in ModelEndpoints => last.done /\ last.resp.status = 503
          /\ temp_dirs = {} /\ frames = {}
    /\ startup_log = "loaded" =>
          /\ last.endpoint # "none" => last.model_loaded
          /\ last.endpoint = "health" => last.resp.body.json.status = "healthy"
          /\ last.endpoint \in ModelEndpoints => last.resp.status # 503

C10_Witness ==
    /\ phase = "stopped"
    /\ startup_log = "failed"
    /\ last.endpoint = "transcribe"
    /\ last.resp.status = 503

-----------------------------------------------------------------------------
(* F5TTSClient (api_client.py) *)

\* A local audio file: its base name and its bytes.
LocalFile(filename, bytes) == [filename |-> filename, bytes |-> bytes]

\* synthesize_speech's parameter defaults (48-55)
DefaultArgs ==
    [target_rms |-> PyFloat(10), cross_fade_duration |-> PyFloat(15),
     speed |-> PyFloat(100), nfe_step |-> PyInt(32), cfg_strength |-> PyFloat(200),
     sway_sampling_coef |-> PyInt(-1), remove_silence |-> PyBool(FALSE), seed |-> PyNone]

\* The arguments of a call that passes only the four required ones and the
\* given speed and seed.
Args(ref_audio_path, ref_text, gen_text, output_path, speed, seed) ==
    [ref_audio_path |-> ref_audio_path, ref_text |-> PyStr(ref_text),
     gen_text |-> PyStr(gen_text), output_path |-> output_path,
     target_rms |-> DefaultArgs.target_rms,
     cross_fade_duration |-> DefaultArgs.cross_fade_duration,
     speed |-> speed, nfe_step |-> DefaultArgs.nfe_step,
     cfg_strength |-> DefaultArgs.cfg_strength,
     sway_sampling_coef |-> DefaultArgs.sway_sampling_coef,
     remove_silence |-> DefaultArgs.remove_silence, seed |-> seed]

\* Faulty variant, for comparison: the cfg_strength key is left out of the dict.
client_request_data_without_cfg(a) ==
    << <<"ref_text", a.ref_text>>, <<"gen_text", a.gen_text>>,
       <<"target_rms", a.target_rms>>,
       <<"cross_fade_duration", a.cross_fade_duration>>,
       <<"speed", a.speed>>, <<"nfe_step", a.nfe_step>>,
       <<"sway_sampling_coef", a.sway_sampling_coef>>,
       <<"remove_silence", a.remove_silence>>, <<"seed", a.seed>> >>

\* synthesize_speech 78-89: the request_data dict, as its items in order.
client_request_data(a) ==
    << <<"ref_text", a.ref_text>>, <<"gen_text", a.gen_text>>,
       <<"target_rms", a.target_rms>>,
       <<"cross_fade_duration", a.cross_fade_duration>>,
       <<"speed", a.speed>>, <<"nfe_step", a.nfe_step>>,
       <<"cfg_strength", a.cfg_strength>>,
       <<"sway_sampling_coef", a.sway_sampling_coef>>,
       <<"remove_silence", a.remove_silence>>, <<"seed", a.seed>> >>

\* synthesize_speech 92-93 / transcribe_audio 127-128: files={name: open file}.
\* requests sends the file's base name and bytes and no content type.
client_upload(local_file) == Upload(<<>>, local_file.filename, local_file.bytes)

\* response.raise_for_status(): whether it raises.
raise_for_status(response) == response.status >= 400 /\ response.status < 600

\* response.headers.get(name)
headers_get(headers, name) ==
    IF name \in DOMAIN headers THEN headers[name] ELSE PyNone

\* Faulty variant, for comparison: the output file is written before raise_for_status is called.
synthesize_speech_finish_write_first(response, output_path, files) ==
    [pc |-> IF raise_for_status(response) THEN "raised" ELSE "returned",
     files |-> [files EXCEPT ![output_path] = File(response.body)],
     ret |-> IF raise_for_status(response) THEN NoRet
             ELSE [output_path |-> output_path,
                   duration |-> headers_get(response.headers, "X-Audio-Duration"),
                   sample_rate |-> headers_get(response.headers, "X-Sample-Rate"),
                   seed |-> headers_get(response.headers, "X-Seed")]]

\* synthesize_speech 102-114: from the response to the return or the raise.
synthesize_speech_finish(response, output_path, files) ==
    IF raise_for_status(response)
    THEN [pc |-> "raised", files |-> files, ret |-> NoRet]
    ELSE [pc |-> "returned",
          files |-> [files EXCEPT ![output_path] = File(response.body)],
          ret |-> [output_path |-> output_path,
                   duration |-> headers_get(response.headers, "X-Audio-Duration"),
                   sample_rate |-> headers_get(response.headers, "X-Sample-Rate"),
                   seed |-> headers_get(response.headers, "X-Seed")]]

\* transcribe_audio 137-138
transcribe_audio_finish(response) ==
    IF raise_for_status(response)
    THEN [pc |-> "raised", ret |-> NoRet]
    ELSE [pc |-> "returned", ret |-> response.body.json]

ConnectionError == [status |-> 0, detail |-> [msg |-> "connection refused", text |-> {}],
                    body |-> [none |-> TRUE], headers |-> NoHeaders]

\* synthesize_speech 77-100: the request is built and posted.  With no server
\* listening the post raises.
ClientSynthesize(a) ==
    /\ client.pc = "idle"
    /\ \/ /\ ~Serving
          /\ client' = [ClientIdle EXCEPT !.pc = "raised", !.op = "synthesize", !.args = a,
                           !.before = out_file[a.output_path], !.response = ConnectionError]
          /\ UNCHANGED serverVars
       \/ /\ SynthesizeEntry(client_upload(a.ref_audio_path),
                             json_dumps(client_request_data(a)), "client", MaxTmp)
          /\ client' = [ClientIdle EXCEPT !.pc = "waiting", !.op = "synthesize", !.args = a,
                           !.before = out_file[a.output_path]]
    /\ UNCHANGED out_file

\* synthesize_speech 100-114: the response has arrived.
ClientSynthesizeReceive ==
    /\ client.pc = "waiting"
    /\ client.op = "synthesize"
    /\ last.origin = "client" /\ last.endpoint = "synthesize" /\ last.done
    /\ LET fin == synthesize_speech_finish(last.resp, client.args.output_path, out_file)
       IN  /\ client' = [client EXCEPT !.pc = fin.pc, !.response = last.resp, !.ret = fin.ret]
           /\ out_file' = fin.files
    /\ UNCHANGED serverVars

\* transcribe_audio 127-135
ClientTranscribe(local_file, language) ==
    /\ client.pc = "idle"
    /\ \/ /\ ~Serving
          /\ client' = [ClientIdle EXCEPT !.pc = "raised", !.op = "transcribe",
                           !.response = ConnectionError]
          /\ UNCHANGED serverVars
       \/ /\ TranscribeEntry(client_upload(local_file), language, "client", MaxTmp)
          /\ client' = [ClientIdle EXCEPT !.pc = "waiting", !.op = "transcribe"]
    /\ UNCHANGED out_file

\* transcribe_audio 135-138
ClientTranscribeReceive ==
    /\ client.pc = "waiting"
    /\ client.op = "transcribe"
    /\ last.origin = "client" /\ last.endpoint = "transcribe" /\ last.done
    /\ LET fin == transcribe_audio_finish(last.resp)
       IN  client' = [client EXCEPT !.pc = fin.pc, !.response = last.resp, !.ret = fin.ret]
    /\ UNCHANGED <<out_file, serverVars>>

\* The caller has the result (or the exception) and may call again.
ClientDone ==
    /\ client.pc \in {"returned", "raised"}
    /\ client' = ClientIdle
    /\ UNCHANGED <<out_file, serverVars>>

RefWav == LocalFile(FN_wav, "b1")
RefTxt == LocalFile(FN_txt, "b2")

\* Calls whose arguments lie within the TTSRequest bounds: the defaults, and
\* every bounded parameter at its lower and at its upper bound.
BoundedCalls ==
    { Args(RefWav, "hi", "yo", "out.wav", DefaultArgs.speed, DefaultArgs.seed),
      [Args(RefTxt, "", "yo", "out.wav", PyFloat(10), PyInt(0)) EXCEPT
          !.target_rms = PyFloat(0), !.cross_fade_duration = PyInt(0),
          !.nfe_step = PyInt(1), !.cfg_strength = PyFloat(0),
          !.sway_sampling_coef = PyFloat(50), !.remove_silence = PyBool(TRUE)],
      [Args(RefTxt, "hi", "", "out.wav", PyInt(3), PyInt(42)) EXCEPT
          !.target_rms = PyInt(1), !.cross_fade_duration = PyFloat(900),
          !.nfe_step = PyInt(128), !.cfg_strength = PyFloat(1000)] }

\* Calls the server refuses.
RefusedCalls ==
    { Args(RefWav, "hi", "yo", "out.wav", PyFloat(301), PyNone),
      [Args(RefWav, "hi", "yo", "out.wav", PyFloat(100), PyNone) EXCEPT
          !.nfe_step = PyInt(0)] }

OldFile == File([old |-> TRUE])

InitClient ==
    /\ phase = "created"
    /\ tts_model = None
    /\ temp_dirs = {}
    /\ temp_files = [d \in {} |-> ""]
    /\ frames = {}
    /\ last = NoExchange
    /\ startup_log = "none"
    /\ client = ClientIdle
    /\ out_file \in {NoFiles, [NoFiles EXCEPT !["out.wav"] = OldFile]}
    /\ main = MainStart

\* The client library against the server.
NextClient ==
    \/ \E ok \in BOOLEAN : Startup(ok) /\ UNCHANGED clientVars
    \/ Shutdown /\ UNCHANGED clientVars
    \/ \E a \in BoundedCalls \cup RefusedCalls : ClientSynthesize(a) /\ UNCHANGED main
    \/ \E f \in frames, out \in InferOutcomes, encode_ok \in BOOLEAN :
          SynthesizeResume(f, out, encode_ok) /\ UNCHANGED clientVars
    \/ ClientSynthesizeReceive /\ UNCHANGED main
    \/ ClientDone /\ UNCHANGED main

SpecClient == InitClient /\ [][NextClient]_vars

-----------------------------------------------------------------------------
(* Claims about the client library *)

\* A synthesize call of the client that has reached the server, with `last`
\* the server's latest segment for it.
ClientExchange ==
    /\ client.op = "synthesize"
    /\ client.pc # "idle"
    /\ client.response # ConnectionError
    /\ last.origin = "client"
    /\ last.endpoint = "synthesize"

SameArgs(call, a) == \A k \in FieldNames : PyEq(call[k], a[k])

\* C7: for arguments of F5TTSClient.synthesize_speech within the TTSRequest
\* bounds (seed=None and the defaults included), the server decodes
\* request_data without a 400 or 500 and calls infer with the same ref_text,
\* gen_text, target_rms, cross_fade_duration, speed, nfe_step, cfg_strength,
\* sway_sampling_coef, remove_silence and seed, and with a reference file
\* holding the bytes of the client's ref_audio_path.
C7_ClientServerAgree ==
    (ClientExchange /\ last.model_loaded /\ ArgsInBounds(client.args)) =>
        /\ last.stage = "entry" =>
              /\ ~last.done
              /\ last.raised = NoExc
              /\ last.temp_dir \in temp_dirs
              /\ SameArgs(last.request, client.args)
        /\ last.stage = "resume" =>
              /\ last.call.op = "infer"
              /\ SameArgs(last.call, client.args)
              /\ last.call.ref_file = client.args.ref_audio_path.bytes
              /\ last.resp.status \in {200, 500}
              /\ last.resp.status = 500 => last.raised.exc = "Exception"

C7_Witness ==
    /\ ClientExchange
    /\ last.call.op = "infer"
    /\ client.args.seed = PyNone
    /\ client.args.sway_sampling_coef = DefaultArgs.sway_sampling_coef
    /\ last.call.seed = PyNone
    /\ last.call.ref_file = "b1"

\* C8: synthesize_speech writes the output file only for a successful
\* response: on a 4xx or 5xx answer the call raises and the file at
\* output_path is neither created nor modified; when the call returns the file
\* holds the response body and the returned dict carries the X-Audio-Duration,
\* X-Sample-Rate and X-Seed headers of that response.
C8_OutputOnlyOnSuccess ==
    client.op = "synthesize" =>
        /\ client.pc \in {"waiting", "raised"} =>
              out_file[client.args.output_path] = client.before
        /\ (client.pc \in {"returned", "raised"} /\ client.response # ConnectionError) =>
              /\ client.response = last.resp
              /\ client.response.status >= 400 => client.pc = "raised"
        /\ client.pc = "returned" =>
              /\ client.response.status = 200
              /\ out_file[client.args.output_path] = File(client.response.body)
              /\ client.ret.output_path = client.args.output_path
              /\ client.ret.duration = client.response.headers["X-Audio-Duration"]
              /\ client.ret.sample_rate = client.response.headers["X-Sample-Rate"]
              /\ client.ret.seed = client.response.headers["X-Seed"]

C8_Witness ==
    /\ client.op = "synthesize"
    /\ client.pc = "raised"
    /\ client.response.status = 500
    /\ client.before = OldFile
    /\ out_file["out.wav"] = OldFile

-----------------------------------------------------------------------------
(* The example program (examples/api_usage_example.py) *)

Coroutine == [t |-> "coroutine"]

\* Python truth value of an object.
truthy(v) ==
    CASE v.t = "None" -> FALSE
      [] v.t = "bool" -> v.b
      [] OTHER -> TRUE

\* wait_for_server(client) as main calls it (line 51): wait_for_server is an
\* `async def` and the call is not awaited, so the call returns a coroutine
\* object and no line of its body (20-37) runs.
wait_for_server_call == Coroutine

ExampleRef == LocalFile(FN_wav, "b1")

\* test_cases (102-124) with the arguments of the call at 135-142
TestCases ==
    << Args(ExampleRef, "nature", "english", "api_test_english.wav", PyFloat(100), PyInt(42)),
       Args(ExampleRef, "nature", "mixed", "api_test_mixed.wav", PyFloat(120), PyInt(42)),
       Args(ExampleRef, "nature", "fast", "api_test_fast.wav", PyFloat(150), PyInt(42)) >>

\* test_files (164)
TranscribeFiles == <<"api_test_english.wav", "api_test_mixed.wav">>

\* the calls of the performance loop (199-209): seed=i
PerfCases ==
    << Args(ExampleRef, "nature", "perf 1", "perf_test_1.wav", PyFloat(100), PyInt(0)),
       Args(ExampleRef, "nature", "perf 2", "perf_test_2.wav", PyFloat(100), PyInt(1)),
       Args(ExampleRef, "nature", "perf 3", "perf_test_3.wav", PyFloat(100), PyInt(2)) >>

Returned(m) == [m EXCEPT !.pc = "returned"]

\* main 49-59
MainWaitForServer ==
    /\ main.pc = "start"
    /\ main' = IF ~truthy(wait_for_server_call)
               THEN [Returned(main) EXCEPT !.hint = TRUE]
               ELSE [main EXCEPT !.pc = "health"]
    /\ UNCHANGED <<client, out_file, serverVars>>

\* main 65-72: client.health_check()
MainHealth ==
    /\ main.pc = "health"
    /\ \/ /\ ~Serving
          /\ main' = Returned(main)
          /\ UNCHANGED serverVars
       \/ /\ HealthCheck
          /\ main' = IF raise_for_status(last'.resp) THEN Returned(main)
                     ELSE [main EXCEPT !.pc = "info",
                              !.saw_loaded = @ \/ last'.resp.body.json.model_loaded]
    /\ UNCHANGED <<client, out_file>>

\* main 78-99: client.get_model_info(), then the look for the example audio
MainInfo ==
    /\ main.pc = "info"
    /\ \/ /\ ~Serving
          /\ main' = [Returned(main) EXCEPT !.calls = @ \cup {"info"}]
          /\ UNCHANGED serverVars
       \/ /\ GetModelInfo
          /\ main' = IF raise_for_status(last'.resp) \/ ~main.ref_exists
                     THEN [Returned(main) EXCEPT !.calls = @ \cup {"info"}]
                     ELSE [main EXCEPT !.pc = "synth", !.i = 1, !.calls = @ \cup {"info"}]
    /\ UNCHANGED <<client, out_file>>

\* main 126-142: the next test case's synthesize_speech call
MainSynth ==
    /\ main.pc = "synth"
    /\ ClientSynthesize(TestCases[main.i])
    /\ main' = [main EXCEPT !.pc = "synth_wait", !.calls = @ \cup {"synthesize"}]

\* main 144-154: the call returned or raised; both go on to the next case
MainSynthDone ==
    /\ main.pc = "synth_wait"
    /\ client.pc \in {"returned", "raised"}
    /\ client' = ClientIdle
    /\ main' = IF main.i < Len(TestCases)
               THEN [main EXCEPT !.pc = "synth", !.i = @ + 1]
               ELSE [main EXCEPT !.pc = "transcribe", !.i = 1]
    /\ UNCHANGED <<out_file, serverVars>>

AfterTranscribe(m) ==
    IF m.i < Len(TranscribeFiles)
    THEN [m EXCEPT !.pc = "transcribe", !.i = @ + 1]
    ELSE [m EXCEPT !.pc = "perf", !.i = 1]

\* main 166-183: transcribe the next generated file when it exists
MainTranscribe ==
    /\ main.pc = "transcribe"
    /\ LET test_file == TranscribeFiles[main.i]
       IN  IF out_file[test_file].exists
           THEN /\ ClientTranscribe(LocalFile(FN_wav, "b1"), PyNone)
                /\ main' = [main EXCEPT !.pc = "transcribe_wait",
                               !.calls = @ \cup {"transcribe"}]
           ELSE /\ main' = AfterTranscribe(main)
                /\ UNCHANGED <<client, out_file, serverVars>>

\* main 173-181
MainTranscribeDone ==
    /\ main.pc = "transcribe_wait"
    /\ client.pc \in {"returned", "raised"}
    /\ client' = ClientIdle
    /\ main' = AfterTranscribe(main)
    /\ UNCHANGED <<out_file, serverVars>>

\* main 192-209: the next call of the performance loop
MainPerf ==
    /\ main.pc = "perf"
    /\ ClientSynthesize(PerfCases[main.i])
    /\ main' = [main EXCEPT !.pc = "perf_wait", !.calls = @ \cup {"synthesize"}]

\* main 211-224: a raise leaves the loop through the except clause
MainPerfDone ==
    /\ main.pc = "perf_wait"
    /\ client.pc \in {"returned", "raised"}
    /\ client' = ClientIdle
    /\ main' = IF client.pc = "returned" /\ main.i < Len(PerfCases)
               THEN [main EXCEPT !.pc = "perf", !.i = @ + 1]
               ELSE [main EXCEPT !.pc = "cleanup"]
    /\ UNCHANGED <<out_file, serverVars>>

\* main 230-245: the generated files are removed
MainCleanup ==
    /\ main.pc = "cleanup"
    /\ out_file' = [p \in OutputPaths |-> IF p = "out.wav" THEN out_file[p] ELSE NoFile]
    /\ main' = [main EXCEPT !.pc = "done"]
    /\ UNCHANGED <<client, serverVars>>

InitExample ==
    /\ phase = "created"
    /\ tts_model = None
    /\ temp_dirs = {}
    /\ temp_files = [d \in {} |-> ""]
    /\ frames = {}
    /\ last = NoExchange
    /\ startup_log = "none"
    /\ client = ClientIdle
    /\ out_file = NoFiles
    /\ main \in {[MainStart EXCEPT !.ref_exists = e] : e \in BOOLEAN}

\* The example program against the server.
NextExample ==
    \/ \E ok \in BOOLEAN : Startup(ok) /\ UNCHANGED clientVars
    \/ Shutdown /\ UNCHANGED clientVars
    \/ \E f \in frames, out \in InferOutcomes, encode_ok \in BOOLEAN :
          SynthesizeResume(f, out, encode_ok) /\ UNCHANGED clientVars
    \/ \E f \in frames, out \in TranscribeOutcomes :
          TranscribeResume(f, out) /\ UNCHANGED clientVars
    \/ ClientSynthesizeReceive /\ UNCHANGED main
    \/ ClientTranscribeReceive /\ UNCHANGED main
    \/ MainWaitForServer
    \/ MainHealth
    \/ MainInfo
    \/ MainSynth
    \/ MainSynthDone
    \/ MainTranscribe
    \/ MainTranscribeDone
    \/ MainPerf
    \/ MainPerfDone
    \/ MainCleanup

SpecExample == InitExample /\ [][NextExample]_vars

\* C9 (as claimed): the example program issues its model-info, synthesize and
\* transcribe calls only after a health check answered model_loaded=true;
\* when none did, main prints the start-the-server hint and returns without a
\* synthesize or transcribe request.
C9_CallsOnlyAfterLoadedHealth ==
    /\ main.calls # {} => main.saw_loaded
    /\ (main.pc = "returned" /\ ~main.saw_loaded) =>
          main.hint /\ main.calls \cap {"synthesize", "transcribe"} = {}

-----------------------------------------------------------------------------
(* The event loop: the handlers' steps between and after their one await *)

\* Where a handler's coroutine stands: "read" while it is suspended at
\* `await ref_audio.read()` / `await audio.read()` (205, 310), "resumed" once
\* the read has returned and the temp file is written, "model" once it has
\* entered tts_model.infer / tts_model.transcribe (208, 313).
pc_of(f) == IF "pc" \in DOMAIN f THEN f.pc ELSE "read"

at(f, pc) == [k \in DOMAIN f \cup {"pc"} |-> IF k = "pc" THEN pc ELSE f[k]]

\* Faulty variant, for comparison: the model call is awaited (handed to a
\* worker thread), so the coroutine gives the loop back when it enters it.
holds_loop_until_model_call(f) == pc_of(f) = "resumed"

\* synthesize_speech 205-247, transcribe_audio 310-322: there is no await after
\* the read, so a resumed coroutine keeps the event loop until it finishes.
holds_loop(f) == pc_of(f) \in {"resumed", "model"}

\* The event loop runs another task only when none holds it.
LoopIdle == \A f \in frames : ~holds_loop(f)

\* 205 / 310: the read returns and f.write() stores the uploaded bytes.
LoopResume(f) ==
    /\ LoopIdle
    /\ f \in frames
    /\ pc_of(f) = "read"
    /\ temp_files' = [temp_files EXCEPT ![f.temp_dir] = f.bytes]
    /\ frames' = (frames \ {f}) \cup {at(f, "resumed")}
    /\ UNCHANGED <<phase, tts_model, temp_dirs, last, startup_log>>

\* 208 / 313: the coroutine enters the model call.
LoopModelCall(f) ==
    /\ \A g \in frames \ {f} : ~holds_loop(g)
    /\ f \in frames
    /\ pc_of(f) = "resumed"
    /\ frames' = (frames \ {f}) \cup {at(f, "model")}
    /\ UNCHANGED <<phase, tts_model, temp_dirs, temp_files, last, startup_log>>

\* 208-266: infer returns or raises, and the response is built.
LoopSynthesizeFinish(f, out, encode_ok) ==
    /\ \A g \in frames \ {f} : ~holds_loop(g)
    /\ pc_of(f) = "model"
    /\ SynthesizeResume(f, out, encode_ok)

\* 313-336: transcribe returns or raises, and the response is built.
LoopTranscribeFinish(f, out) ==
    /\ \A g \in frames \ {f} : ~holds_loop(g)
    /\ pc_of(f) = "model"
    /\ TranscribeResume(f, out)

NextLoop ==
    \/ \E ok \in BOOLEAN : Startup(ok) /\ UNCHANGED clientVars
    \/ Shutdown /\ UNCHANGED clientVars
    \/ LoopIdle /\ HealthCheck /\ UNCHANGED clientVars
    \/ LoopIdle /\ GetModelInfo /\ UNCHANGED clientVars
    \/ LoopIdle /\ Root /\ UNCHANGED clientVars
    \/ \E q \in CoreSynthesizeRequests :
          /\ LoopIdle
          /\ SynthesizeEntry(q.ref_audio, q.request_data, "raw", MaxTmp)
          /\ UNCHANGED clientVars
    \/ \E q \in CoreTranscribeRequests :
          /\ LoopIdle
          /\ TranscribeEntry(q.audio, q.language, "raw", MaxTmp)
          /\ UNCHANGED clientVars
    \/ \E f \in frames : LoopResume(f) /\ UNCHANGED clientVars
    \/ \E f \in frames : LoopModelCall(f) /\ UNCHANGED clientVars
    \/ \E f \in frames, out \in InferOutcomes, encode_ok \in BOOLEAN :
          LoopSynthesizeFinish(f, out, encode_ok) /\ UNCHANGED clientVars
    \/ \E f \in frames, out \in TranscribeOutcomes :
          LoopTranscribeFinish(f, out) /\ UNCHANGED clientVars

SpecLoop == Init /\ [][NextLoop]_vars

AtOrPastModelCall == {f \in frames : pc_of(f) = "model"}

\* C11: in one server process at most one request is at or past its model
\* call at any time, and from the moment a request enters infer or transcribe
\* until its response is built no step of any other request's handler runs:
\* the next step of the server is that request's own finish, whatever other
\* synthesize and transcribe requests are waiting at their read.
C11_ModelCallsNeverOverlap ==
    /\ [](Cardinality(AtOrPastModelCall) <= 1)
    /\ [][\A f \in AtOrPastModelCall :
             /\ frames' = frames \ {f}
             /\ last'.done
             /\ last'.stage = "resume"
             /\ last'.endpoint = f.endpoint
             /\ last'.temp_dir = f.temp_dir]_vars

C11_Witness ==
    \E f, g \in frames :
        /\ pc_of(f) = "model" /\ f.endpoint = "synthesize"
        /\ pc_of(g) = "read" /\ g.endpoint = "transcribe"

=============================================================================
